---- MODULE Spec2Model ----
(***************************************************************************)
(* A model of the Texas Hold'em engine of src/game.py: the seats           *)
(* (Player), the table (PokerGame), one hand (play_round) made of up to    *)
(* four betting rounds (betting_round) and the settlement (end_round,      *)
(* determine_winner, distribute_pot), driven by main's loop.               *)
(*                                                                         *)
(* The steps of the model are the stretches of code between two reads of   *)
(* the console (input()), cut once more where a betting round begins and   *)
(* where it returns, so that those two points are states.                  *)
(*                                                                         *)
(* In the game (Spec) cards are not modelled one by one: the deck is       *)
(* shuffled at random, so the (HandRank, key) pair the evaluator returns   *)
(* for each seat at a showdown is an input, drawn from HandChoices;        *)
(* community_cards is the number of community cards on the table.          *)
(*                                                                         *)
(* The evaluator itself (PokerHandEvaluator.evaluate_hand) is a pure       *)
(* function of the cards it is handed; EvalSpec deals every set of cards   *)
(* of a small deck and applies it.                                         *)
(***************************************************************************)
EXTENDS Integers, Sequences, FiniteSets, TLC

\* ------------------------------------------------------------------ bounds
\* initial_chips (an input of main) is StackUnits small blinds.
StackUnits == 3
\* Hands played by main's loop before the model stops dealing.
MaxHands == 3
\* The deck EvalSpec deals from: the ranks TWO..TopLowRank and ACE, in the
\* first NumSuits suits.
TopLowRank == 6
NumSuits == 2

\* ------------------------------------------------------- program constants
small_blind_amount == 10
big_blind_amount == 20
\* main seats three players; PokerGame itself takes any list of names, and
\* the model also plays the smallest table, two seats (heads-up).
MainPlayers == 3
\* Rank
TWO == 2
ACE == 14
\* HandRank
HIGH_CARD == 0
PAIR == 1
TWO_PAIR == 2
THREE_OF_A_KIND == 3
STRAIGHT == 4
FLUSH == 5
FULL_HOUSE == 6
FOUR_OF_A_KIND == 7
STRAIGHT_FLUSH == 8
ROYAL_FLUSH == 9
\* deal_hole_cards and deal_flop
HoleCards == 2
FlopCards == 3

VARIABLES
    players,                \* PokerGame.players: seat index -> Player record
    pot,                    \* PokerGame.pot
    current_betting_round,  \* 0 = pre-flop, 1 = flop, 2 = turn, 3 = river
    current_player_index,   \* PokerGame.current_player_index
    dealer_index,           \* PokerGame.dealer_index
    min_raise,              \* PokerGame.min_raise
    community_cards,        \* len(PokerGame.community_cards)
    current_bet,            \* betting_round's local current_bet
    last_raiser_index,      \* betting_round's local last_raiser_index
    num_active_players,     \* betting_round's local num_active_players
    pc,                     \* where the program stands
    hands_played,           \* calls of play_round so far
    start_chips,            \* history: each seat's chips when the hand began
    awarded,                \* history: chips each seat received at settlement
    acted,                  \* history: seats that answered a prompt on this
                            \*   street since it began or since the last raise
    all_cards,              \* evaluate_hand's all_cards, a set of <<rank, suit>>
    evaluation              \* what evaluate_hand returned for all_cards

vars == <<players, pot, current_betting_round, current_player_index,
          dealer_index, min_raise, community_cards, current_bet,
          last_raiser_index, num_active_players, pc, hands_played,
          start_chips, awarded, acted, all_cards, evaluation>>

\* ----------------------------------------------------------------- helpers
Min(a, b) == IF a <= b THEN a ELSE b

Max(a, b) == IF a >= b THEN a ELSE b

Seats == DOMAIN players

NumSeats == Cardinality(Seats)

RECURSIVE SumOver(_, _)
SumOver(f, S) ==
    IF S = {} THEN 0
    ELSE LET x == CHOOSE y \in S : TRUE IN f[x] + SumOver(f, S \ {x})

MaxOver(S) == CHOOSE m \in S : \A x \in S : x <= m

\* ------------------------------------------------------------------ Player
\* Player.__init__
NewPlayer(chips) ==
    [chips |-> chips, current_bet |-> 0, is_active |-> TRUE,
     has_folded |-> FALSE, is_all_in |-> FALSE]

\* Player.reset_for_round (the hand of cards is not modelled)
reset_for_round(p) ==
    [p EXCEPT !.current_bet = 0, !.is_active = TRUE,
              !.has_folded = FALSE, !.is_all_in = FALSE]

\* Player.bet's return value: actual_bet = min(amount, self.chips)
actual_bet(p, amount) == Min(amount, p.chips)

\* a bet that takes the amount asked for, not actual_bet, from the chips
bet_takes_amount(p, amount) ==
    [p EXCEPT !.chips = @ - amount,
              !.current_bet = @ + actual_bet(p, amount),
              !.is_all_in = IF p.chips - amount <= 0 THEN TRUE ELSE @]

\* a bet without lines 188-189: is_all_in is left as it was
bet_leaves_flag(p, amount) ==
    LET a == actual_bet(p, amount) IN
    [p EXCEPT !.chips = @ - a,
              !.current_bet = @ + a]

\* Player.bet's effect on the player
bet(p, amount) ==
    LET a == actual_bet(p, amount) IN
    [p EXCEPT !.chips = @ - a,
              !.current_bet = @ + a,
              !.is_all_in = IF p.chips - a = 0 THEN TRUE ELSE @]

\* ------------------------------------------------------------------- table
\* get_active_players returning every seat, the folded ones too
ActiveIn_keeps_folded(ps) == DOMAIN ps

\* PokerGame.get_active_players, on a players function ps
ActiveIn(ps) == {i \in DOMAIN ps : ps[i].is_active /\ ~ps[i].has_folded}

get_active_players == ActiveIn(players)

\* the seats the loop of betting_round does not skip (lines 295-297)
CanActIn(ps) == {i \in DOMAIN ps : ~ps[i].has_folded /\ ~ps[i].is_all_in}

\* FirstToAct with the loops skipping folded seats only
FirstToAct_skips_folded_only(ps, from) ==
    LET n == Cardinality(DOMAIN ps)
        S == {i \in DOMAIN ps : ~ps[i].has_folded}
    IN IF S = {} THEN -1
       ELSE LET k == CHOOSE d \in 0..(n - 1) :
                       /\ ((from + d) % n) \in S
                       /\ \A e \in 0..(d - 1) : ((from + e) % n) \notin S
            IN (from + k) % n

\* The seat the while loops of betting_round (289-291, 294-297) stop at when
\* they start from seat `from`: the first seat, clockwise, that is neither
\* folded nor all-in. -1 when there is none: the loop never ends.
FirstToAct(ps, from) ==
    LET n == Cardinality(DOMAIN ps) IN
    IF CanActIn(ps) = {} THEN -1
    ELSE LET k == CHOOSE d \in 0..(n - 1) :
                    /\ ((from + d) % n) \in CanActIn(ps)
                    /\ \A e \in 0..(d - 1) : ((from + e) % n) \notin CanActIn(ps)
         IN (from + k) % n

\* PokerGame.post_blinds: the players and the chips that went to the pot
post_blinds_players(ps, dealer) ==
    LET n == Cardinality(DOMAIN ps)
        sb_index == (dealer + 1) % n
        bb_index == (dealer + 2) % n
        afterSb == [ps EXCEPT ![sb_index] = bet(ps[sb_index], small_blind_amount)]
    IN [afterSb EXCEPT ![bb_index] = bet(afterSb[bb_index], big_blind_amount)]

post_blinds_pot(ps, dealer) ==
    LET n == Cardinality(DOMAIN ps)
        sb_index == (dealer + 1) % n
        bb_index == (dealer + 2) % n
        afterSb == [ps EXCEPT ![sb_index] = bet(ps[sb_index], small_blind_amount)]
    IN actual_bet(ps[sb_index], small_blind_amount)
       + actual_bet(afterSb[bb_index], big_blind_amount)

\* The legal set betting_round offers the seat it prompts (lines 304-327),
\* given the street's current bet cb and the table's min_raise mr.
valid_actions(p, cb, mr) ==
    LET player_bet_difference == cb - p.current_bet IN
    {"fold"} \cup
    IF p.chips > 0
    THEN IF player_bet_difference > 0
         THEN {"call"} \cup (IF p.chips >= mr THEN {"raise"} ELSE {})
         ELSE {"check"} \cup (IF p.chips >= mr THEN {"raise"} ELSE {})
    ELSE IF player_bet_difference > 0 THEN {} ELSE {"check"}

\* lines 365-366: the range a raise-to amount typed as an integer must be in
min_raise_amount(p, cb, mr) == Max(mr, cb - p.current_bet + big_blind_amount)

max_raise_amount(p) == p.chips + p.current_bet

\* The integers the model types as a raise-to amount: the two ends of the
\* range asked for (the minimum raise and all the chips).
RaiseChoices(lo, hi) == {a \in lo..hi : a = lo \/ a = hi}

\* the test of lines 398-400 without line 400: the last raiser is ignored
RoundOver_ignores_raiser(ps, cb, idx, lri) ==
    \A i \in ActiveIn(ps) : ps[i].current_bet = cb

\* lines 398-400: the test that ends the loop of betting_round, made after
\* the index has moved on to idx
RoundOver(ps, cb, idx, lri) ==
    /\ \A i \in ActiveIn(ps) : ps[i].current_bet = cb
    /\ (lri = -1 \/ idx = lri)

\* lines 405-407: current bets go back to 0, except for all-in players
ResetBets(ps) ==
    [i \in DOMAIN ps |->
        IF ps[i].is_all_in THEN ps[i] ELSE [ps[i] EXCEPT !.current_bet = 0]]

\* lines 394-407 and 294-297: what follows an accepted action. ps, cb and
\* lri are the players, current_bet and last_raiser_index the action left;
\* foldBreak is the break of line 347.
ContinueRound(ps, cb, lri, foldBreak) ==
    LET next == (current_player_index + 1) % NumSeats
        over == foldBreak \/ RoundOver(ps, cb, next, lri)
        first == FirstToAct(ps, next)
    IN /\ players' = IF over THEN ResetBets(ps) ELSE ps
       /\ current_bet' = cb
       /\ last_raiser_index' = lri
       /\ current_player_index' =
             IF foldBreak THEN current_player_index
             ELSE IF over \/ first = -1 THEN next ELSE first
       /\ pc' = IF over THEN "closed" ELSE IF first = -1 THEN "spin" ELSE "ask"

\* ---------------------------------------------------------------- showdown
\* What evaluate_hand may return for a seat at a showdown: <<HandRank, key>>.
HandChoices ==
    { <<1, <<9, 14, 13, 12>> >>,     \* a pair of nines, A K Q
      <<1, <<9, 14, 13, 11>> >>,     \* a pair of nines, A K J
      <<4, <<10>> >>,                \* a ten-high straight
      <<4, <<5>> >> }                \* a five-high straight

\* Python's order on lists of integers
ListLess(a, b) ==
    LET m == Min(Len(a), Len(b))
        D == {i \in 1..m : a[i] # b[i]}
    IN IF D = {} THEN Len(a) < Len(b)
       ELSE LET i == CHOOSE j \in D : \A k \in D : j <= k IN a[i] < b[i]

\* the sort key of line 424 with its two parts swapped: (key list, rank value)
ResultLess_key_first(x, y) ==
    \/ ListLess(x.key, y.key)
    \/ x.key = y.key /\ x.rank < y.rank

\* the sort key of line 424, (rank value, key list), compared as tuples
ResultLess(x, y) ==
    \/ x.rank < y.rank
    \/ x.rank = y.rank /\ ListLess(x.key, y.key)

\* a seat's entry of `results`, in a list that is already sorted: list.sort
\* is stable, also with reverse=True, so equal entries keep their order
RECURSIVE InsertResult(_, _)
InsertResult(sorted, x) ==
    IF sorted = <<>> THEN <<x>>
    ELSE IF ResultLess(Head(sorted), x)
         THEN <<x>> \o sorted
         ELSE <<Head(sorted)>> \o InsertResult(Tail(sorted), x)

RECURSIVE SortResults(_, _)
SortResults(done, rest) ==
    IF rest = <<>> THEN done
    ELSE SortResults(InsertResult(done, Head(rest)), Tail(rest))

\* lines 417-421: one entry per active player, in the order of self.players
RECURSIVE ResultsFrom(_, _, _)
ResultsFrom(ps, hands, i) ==
    IF i >= Cardinality(DOMAIN ps) THEN <<>>
    ELSE (IF i \in ActiveIn(ps)
          THEN << [seat |-> i, rank |-> hands[i][1], key |-> hands[i][2]] >>
          ELSE <<>>) \o ResultsFrom(ps, hands, i + 1)

\* lines 430-452: one turn of the loop over the sorted results. st holds
\* winners, max_ranks_list and whether the loop has hit its break.
WinnerStep(st, res, max_rank) ==
    IF st.stopped THEN st
    ELSE IF res.rank # max_rank THEN [st EXCEPT !.stopped = TRUE]
    ELSE IF res.key = st.max_ranks_list
         THEN [st EXCEPT !.winners = Append(@, res)]
    ELSE
      LET old == st.max_ranks_list
          min_len == Min(Len(old), Len(res.key))
          D == {i \in 1..min_len : old[i] # res.key[i]}
          is_tie == D = {}
          d == IF is_tie THEN 0 ELSE CHOOSE j \in D : \A k \in D : j <= k
          st1 == IF ~is_tie /\ res.key[d] > old[d]
                 THEN [st EXCEPT !.winners = <<res>>, !.max_ranks_list = res.key]
                 ELSE st
      IN IF is_tie /\ Len(res.key) = Len(st1.max_ranks_list)
         THEN [st1 EXCEPT !.winners = Append(@, res)]
         ELSE IF ~is_tie /\ res.key[1] > st1.max_ranks_list[1]
              THEN [st1 EXCEPT !.winners = <<res>>, !.max_ranks_list = res.key]
              ELSE st1

RECURSIVE WinnerLoop(_, _, _)
WinnerLoop(st, results, max_rank) ==
    IF results = <<>> THEN st
    ELSE WinnerLoop(WinnerStep(st, Head(results), max_rank), Tail(results), max_rank)

\* PokerGame.determine_winner with two or more active players: the winners,
\* as a sequence of seats, given the evaluator's answer for each seat
determine_winner(ps, hands) ==
    LET results == SortResults(<<>>, ResultsFrom(ps, hands, 0))
        st == WinnerLoop([winners |-> <<>>, max_ranks_list |-> results[1].key,
                          stopped |-> FALSE],
                         results, results[1].rank)
    IN [k \in 1..Len(st.winners) |-> st.winners[k].seat]

\* PokerGame.distribute_pot: the chips seat i receives from pot p
distribute_pot(winners, p, i) ==
    LET n == Len(winners)
        K == {k \in 1..n : winners[k] = i}
    IN IF n = 0 THEN 0
       ELSE IF n = 1 THEN (IF K # {} THEN p ELSE 0)
       ELSE Cardinality(K) * (p \div n)
            + Cardinality({k \in K : k <= p % n})

\* --------------------------------------------------------------- evaluator
\* A card is <<rank, suit>> (Card.rank.value, Card.suit).
Deck == ((TWO..TopLowRank) \cup {ACE}) \X (1..NumSuits)

\* the sizes of player_cards + community_cards: after the flop, the turn
\* and the river
HandSizes ==
    {HoleCards + FlopCards, HoleCards + FlopCards + 1, HoleCards + FlopCards + 1 + 1}

\* evaluation before evaluate_hand has returned
NoEvaluation == [rank |-> -1, key |-> <<>>]

\* sorted(..., reverse=True) of a set of integers
RECURSIVE Descending(_)
Descending(S) ==
    IF S = {} THEN <<>>
    ELSE LET m == MaxOver(S) IN <<m>> \o Descending(S \ {m})

\* lines 80-86: ranks, as the set of them, and rank_counts
RanksOf(cards) == {c[1] : c \in cards}

rank_counts(cards) ==
    [r \in RanksOf(cards) |-> Cardinality({c \in cards : c[1] = r})]

\* line 89: the items of counts over the ranks R, by frequency then by rank,
\* both descending
RECURSIVE SortCounts(_, _)
SortCounts(counts, R) ==
    IF R = {} THEN <<>>
    ELSE LET m == CHOOSE r \in R : \A q \in R :
                      \/ counts[q] < counts[r]
                      \/ counts[q] = counts[r] /\ q <= r
         IN <<[rank |-> m, count |-> counts[m]]>> \o SortCounts(counts, R \ {m})

sorted_rank_counts(cards) == SortCounts(rank_counts(cards), RanksOf(cards))

\* line 91
is_flush(cards) == Cardinality({c[2] : c \in cards}) = 1

\* line 92
unique_ranks(cards) == Descending(RanksOf(cards))

\* lines 96-100: the values of i the loop would stop at
RegularStraights(u) == {i \in 1..(Len(u) - 4) : u[i] - u[i + 4] = 4}

\* line 102
HasWheel(cards) == {14, 5, 4, 3, 2} \subseteq RanksOf(cards)

\* lines 93-104
is_straight(cards) ==
    /\ Len(unique_ranks(cards)) >= 5
    /\ RegularStraights(unique_ranks(cards)) # {} \/ HasWheel(cards)

\* lines 96-104: the loop breaks at the first i, and the wheel's test, made
\* after it, overwrites what the loop found
straight_high(cards) ==
    LET u == unique_ranks(cards)
        I == RegularStraights(u)
    IN IF HasWheel(cards) THEN 5
       ELSE u[CHOOSE i \in I : \A j \in I : i <= j]

\* next((rank for rank, count in sorted_rank_counts if rank not in taken),
\* None), lines 115 and 140; None is 0
NextRank(src, taken) ==
    LET K == {k \in 1..Len(src) : src[k].rank \notin taken}
    IN IF K = {} THEN 0
       ELSE src[CHOOSE k \in K : \A j \in K : k <= j].rank

\* the loops of lines 129-133 and 147-151, from item k of src on: kickers
\* takes min(count, per) copies of each rank but taken, until it holds need
RECURSIVE KickerLoop(_, _, _, _, _, _)
KickerLoop(src, k, taken, per, need, kickers) ==
    IF k > Len(src) THEN kickers
    ELSE LET more == IF src[k].rank # taken
                     THEN kickers \o [j \in 1..Min(src[k].count, per) |-> src[k].rank]
                     ELSE kickers
         IN IF Len(more) >= need THEN more
            ELSE KickerLoop(src, k + 1, taken, per, need, more)

\* kickers[:need]
Kickers(src, taken, per, need) ==
    LET kickers == KickerLoop(src, 1, taken, per, need, <<>>)
    IN SubSeq(kickers, 1, Min(need, Len(kickers)))

\* PokerHandEvaluator.evaluate_hand, lines 106-164, on the set of all_cards
evaluate_hand(cards) ==
    LET src == sorted_rank_counts(cards)
        u == unique_ranks(cards)
    IN IF is_straight(cards) /\ is_flush(cards)
       THEN IF straight_high(cards) = 14
            THEN [rank |-> ROYAL_FLUSH, key |-> <<14>>]
            ELSE [rank |-> STRAIGHT_FLUSH, key |-> <<straight_high(cards)>>]
       ELSE IF src[1].count = 4
       THEN LET kicker == NextRank(src, {src[1].rank})
            IN [rank |-> FOUR_OF_A_KIND,
                key |-> IF kicker # 0 THEN <<src[1].rank, kicker>>
                        ELSE <<src[1].rank>>]
       ELSE IF src[1].count = 3 /\ Len(src) > 1 /\ src[2].count >= 2
       THEN [rank |-> FULL_HOUSE, key |-> <<src[1].rank, src[2].rank>>]
       ELSE IF is_flush(cards)
       THEN [rank |-> FLUSH, key |-> SubSeq(u, 1, Min(5, Len(u)))]
       ELSE IF is_straight(cards)
       THEN [rank |-> STRAIGHT, key |-> <<straight_high(cards)>>]
       ELSE IF src[1].count = 3
       THEN [rank |-> THREE_OF_A_KIND,
             key |-> <<src[1].rank>> \o Kickers(src, src[1].rank, 2, 2)]
       ELSE IF src[1].count = 2 /\ Len(src) > 1 /\ src[2].count = 2
       THEN LET kicker == NextRank(src, {src[1].rank, src[2].rank})
            IN [rank |-> TWO_PAIR,
                key |-> IF kicker # 0 THEN <<src[1].rank, src[2].rank, kicker>>
                        ELSE <<src[1].rank, src[2].rank>>]
       ELSE IF src[1].count = 2
       THEN [rank |-> PAIR,
             key |-> <<src[1].rank>> \o Kickers(src, src[1].rank, 1, 3)]
       ELSE [rank |-> HIGH_CARD, key |-> SubSeq(u, 1, Min(5, Len(u)))]

\* ------------------------------------------------------------------- state
\* PokerGame.__init__, called by main with the names and initial_chips typed
Init ==
    \E n \in 2..MainPlayers :
        /\ players = [i \in 0..(n - 1) |-> NewPlayer(StackUnits * small_blind_amount)]
        /\ start_chips = [i \in 0..(n - 1) |-> StackUnits * small_blind_amount]
        /\ awarded = [i \in 0..(n - 1) |-> 0]
        /\ pot = 0
        /\ current_betting_round = 0
        /\ current_player_index = 0
        /\ dealer_index = 0
        /\ min_raise = big_blind_amount
        /\ community_cards = 0
        /\ current_bet = 0
        /\ last_raiser_index = -1
        /\ num_active_players = 0
        /\ pc = "init"
        /\ hands_played = 0
        /\ acted = {}
        /\ all_cards = {}
        /\ evaluation = NoEvaluation

\* play_round up to its first call of betting_round (lines 488-499):
\* reset_game, deal_hole_cards and post_blinds. main calls it first, and
\* again each time the answer to its question is y.
PlayRound ==
    /\ pc \in {"init", "done"}
    /\ hands_played < MaxHands
    /\ LET dealer == (dealer_index + 1) % NumSeats
           fresh == [i \in Seats |-> reset_for_round(players[i])]
       IN /\ dealer_index' = dealer
          /\ players' = post_blinds_players(fresh, dealer)
          /\ pot' = 0 + post_blinds_pot(fresh, dealer)
          /\ start_chips' = [i \in Seats |-> players[i].chips]
    /\ awarded' = [i \in Seats |-> 0]
    /\ community_cards' = 0
    /\ current_betting_round' = 0
    /\ min_raise' = big_blind_amount
    /\ hands_played' = hands_played + 1
    /\ pc' = "street"
    /\ UNCHANGED <<current_player_index, current_bet, last_raiser_index,
                   num_active_players, acted, all_cards, evaluation>>

\* main, lines 605-610: any answer but y ends the game
GameOver ==
    /\ pc = "done"
    /\ pc' = "over"
    /\ UNCHANGED <<players, pot, current_betting_round, current_player_index,
                   dealer_index, min_raise, community_cards, current_bet,
                   last_raiser_index, num_active_players, hands_played,
                   start_chips, awarded, acted, all_cards, evaluation>>

\* betting_round from its entry to its first prompt (lines 273-297)
BettingRoundStart ==
    /\ pc = "street"
    /\ IF Cardinality(get_active_players) <= 1
       THEN /\ pc' = "closed"
            /\ UNCHANGED <<current_bet, last_raiser_index, num_active_players,
                           current_player_index, acted>>
       ELSE LET from == IF current_betting_round = 0
                        THEN (dealer_index + 3) % NumSeats
                        ELSE (dealer_index + 1) % NumSeats
                first == FirstToAct(players, from)
            IN /\ current_bet' = MaxOver({players[i].current_bet : i \in Seats})
               /\ last_raiser_index' = -1
               /\ num_active_players' = Cardinality(get_active_players)
               /\ current_player_index' = IF first = -1 THEN from ELSE first
               /\ pc' = IF first = -1 THEN "spin" ELSE "ask"
               /\ acted' = {}
    /\ UNCHANGED <<players, pot, current_betting_round, dealer_index, min_raise,
                   community_cards, hands_played, start_chips, awarded,
                   all_cards, evaluation>>

\* the seat being prompted, and what it is offered
Prompted == players[current_player_index]

Offered == valid_actions(Prompted, current_bet, min_raise)

\* lines 339-347
Fold ==
    /\ pc = "ask"
    /\ "fold" \in Offered
    /\ num_active_players' = num_active_players - 1
    /\ acted' = acted \cup {current_player_index}
    /\ ContinueRound([players EXCEPT ![current_player_index] =
                         [@ EXCEPT !.has_folded = TRUE, !.is_active = FALSE]],
                     current_bet, last_raiser_index,
                     num_active_players - 1 <= 1)
    /\ UNCHANGED <<pot, current_betting_round, dealer_index, min_raise,
                   community_cards, hands_played, start_chips, awarded,
                   all_cards, evaluation>>

\* lines 349-352
Check ==
    /\ pc = "ask"
    /\ "check" \in Offered
    /\ acted' = acted \cup {current_player_index}
    /\ ContinueRound(players, current_bet, last_raiser_index, FALSE)
    /\ UNCHANGED <<pot, current_betting_round, dealer_index, min_raise,
                   community_cards, num_active_players, hands_played,
                   start_chips, awarded, all_cards, evaluation>>

\* lines 354-362
Call ==
    /\ pc = "ask"
    /\ "call" \in Offered
    /\ LET call_amount == current_bet - Prompted.current_bet IN
       /\ pot' = pot + actual_bet(Prompted, call_amount)
       /\ ContinueRound([players EXCEPT ![current_player_index] =
                            bet(Prompted, call_amount)],
                        current_bet, last_raiser_index, FALSE)
    /\ acted' = acted \cup {current_player_index}
    /\ UNCHANGED <<current_betting_round, dealer_index, min_raise,
                   community_cards, num_active_players, hands_played,
                   start_chips, awarded, all_cards, evaluation>>

\* lines 382-392: a raise to raise_amount
ApplyRaise(raise_amount) ==
    LET actual_raise == actual_bet(Prompted, raise_amount - Prompted.current_bet)
        after == bet(Prompted, raise_amount - Prompted.current_bet)
    IN /\ pot' = pot + actual_raise
       /\ min_raise' = raise_amount - (after.current_bet - actual_raise)
       /\ acted' = {current_player_index}
       /\ ContinueRound([players EXCEPT ![current_player_index] = after],
                        after.current_bet, current_player_index, FALSE)
       /\ UNCHANGED <<current_betting_round, dealer_index, community_cards,
                      num_active_players, hands_played, start_chips, awarded,
                      all_cards, evaluation>>

\* lines 364-375: raise, the amount typed an integer of the range asked for
Raise ==
    /\ pc = "ask"
    /\ "raise" \in Offered
    /\ \E raise_amount \in
            RaiseChoices(min_raise_amount(Prompted, current_bet, min_raise),
                         max_raise_amount(Prompted)) :
          ApplyRaise(raise_amount)

\* lines 376-380: raise, the amount typed not an integer (ValueError): the
\* minimum is taken, whether or not it is in the range
RaiseMalformed ==
    /\ pc = "ask"
    /\ "raise" \in Offered
    /\ ApplyRaise(min_raise_amount(Prompted, current_bet, min_raise))

\* what may be typed at the prompt of line 335
Proposals == {"fold", "check", "call", "raise", "allin"}

\* lines 336-337: a word that is not a valid action is asked for again;
\* nothing is assigned but action_input
RejectAction ==
    /\ pc = "ask"
    /\ \E action_input \in Proposals : action_input \notin Offered
    /\ UNCHANGED vars

\* lines 373-375: raise, the amount typed an integer outside the range asked
\* for: it is asked for again; nothing is assigned but raise_amount
RejectAmount ==
    /\ pc = "ask"
    /\ "raise" \in Offered
    /\ LET lo == min_raise_amount(Prompted, current_bet, min_raise)
           hi == max_raise_amount(Prompted)
       IN \E raise_amount \in {lo - 1, hi + 1} :
             raise_amount < lo \/ raise_amount > hi
    /\ UNCHANGED vars

\* lines 289-291 and 294-297 when every seat is folded or all-in: the loop
\* runs forever without a prompt
Spin ==
    /\ pc = "spin"
    /\ UNCHANGED vars

\* betting_round has returned: its locals are gone
LocalsGone ==
    /\ current_bet' = 0
    /\ last_raiser_index' = -1
    /\ num_active_players' = 0
    /\ acted' = {}

\* DealNextStreet without the test of lines 503, 515 and 527
DealNextStreet_unchecked ==
    /\ pc = "closed"
    /\ current_betting_round < 3
    /\ current_betting_round' = current_betting_round + 1
    /\ community_cards' = IF current_betting_round = 0 THEN 3
                          ELSE community_cards + 1
    /\ pc' = "street"
    /\ LocalsGone
    /\ UNCHANGED <<players, pot, current_player_index, dealer_index, min_raise,
                   hands_played, start_chips, awarded, all_cards, evaluation>>

\* play_round after a betting round that leaves two or more active players
\* and a street to play (lines 507-513, 519-525, 531-537): deal, next round
DealNextStreet ==
    /\ pc = "closed"
    /\ Cardinality(get_active_players) > 1
    /\ current_betting_round < 3
    /\ current_betting_round' = current_betting_round + 1
    /\ community_cards' = IF current_betting_round = 0 THEN 3
                          ELSE community_cards + 1
    /\ pc' = "street"
    /\ LocalsGone
    /\ UNCHANGED <<players, pot, current_player_index, dealer_index, min_raise,
                   hands_played, start_chips, awarded, all_cards, evaluation>>

\* end_round with one active player (lines 546-552), reached from lines
\* 503-505, 515-517, 527-529 or 539
WinByFold ==
    /\ pc = "closed"
    /\ Cardinality(get_active_players) = 1
    /\ LET winner == CHOOSE i \in get_active_players : TRUE IN
       /\ players' = [players EXCEPT ![winner].chips = @ + pot]
       /\ awarded' = [i \in Seats |-> IF i = winner THEN pot ELSE 0]
    /\ pc' = "done"
    /\ LocalsGone
    /\ UNCHANGED <<pot, current_betting_round, current_player_index,
                   dealer_index, min_raise, community_cards, hands_played,
                   start_chips, all_cards, evaluation>>

\* end_round with two or more active players (lines 543-545), reached from
\* line 539 after the river's betting round
Showdown ==
    /\ pc = "closed"
    /\ Cardinality(get_active_players) > 1
    /\ current_betting_round = 3
    /\ \E hands \in [get_active_players -> HandChoices] :
         LET winners == determine_winner(players, hands) IN
         /\ players' = [i \in Seats |->
                [players[i] EXCEPT !.chips = @ + distribute_pot(winners, pot, i)]]
         /\ awarded' = [i \in Seats |-> distribute_pot(winners, pot, i)]
    /\ pc' = "done"
    /\ LocalsGone
    /\ UNCHANGED <<pot, current_betting_round, current_player_index,
                   dealer_index, min_raise, community_cards, hands_played,
                   start_chips, all_cards, evaluation>>

\* every player_cards + community_cards evaluate_hand can be handed from the
\* deck: deal_hole_cards, deal_flop, deal_turn, deal_river
DealCards ==
    /\ all_cards = {}
    /\ \E cards \in SUBSET Deck :
          /\ Cardinality(cards) \in HandSizes
          /\ all_cards' = cards
    /\ UNCHANGED <<players, pot, current_betting_round, current_player_index,
                   dealer_index, min_raise, community_cards, current_bet,
                   last_raiser_index, num_active_players, pc, hands_played,
                   start_chips, awarded, acted, evaluation>>

\* a call of PokerHandEvaluator.evaluate_hand (lines 412 and 419)
Evaluate ==
    /\ all_cards # {}
    /\ evaluation = NoEvaluation
    /\ evaluation' = evaluate_hand(all_cards)
    /\ UNCHANGED <<players, pot, current_betting_round, current_player_index,
                   dealer_index, min_raise, community_cards, current_bet,
                   last_raiser_index, num_active_players, pc, hands_played,
                   start_chips, awarded, acted, all_cards>>

Next ==
    \/ PlayRound
    \/ GameOver
    \/ BettingRoundStart
    \/ Fold
    \/ Check
    \/ Call
    \/ Raise
    \/ RaiseMalformed
    \/ RejectAction
    \/ RejectAmount
    \/ Spin
    \/ DealNextStreet
    \/ WinByFold
    \/ Showdown

Spec == Init /\ [][Next]_vars

\* the evaluator alone, on every hand of the deck
EvalNext ==
    \/ DealCards
    \/ Evaluate

\* the table as main builds it; no hand is played
EvalInit == Init /\ NumSeats = MainPlayers

EvalSpec == EvalInit /\ [][EvalNext]_vars

\* ------------------------------------------------------------------ claims
NonFolded == {i \in Seats : ~players[i].has_folded}

CanAct == CanActIn(players)

ChipsOf == [i \in Seats |-> players[i].chips]

\* the chips of the pot that have not been awarded
PotInFlight == IF pc \in {"done", "over"} THEN 0 ELSE pot

\* what a seat has put into the pot in this hand
Contribution(i) == start_chips[i] - (players[i].chips - awarded[i])

\* C1: at every point of a hand, the seats' chips plus the chips of the pot
\* not yet awarded are the seats' chips at the start of the hand.
C1_ChipConservation ==
    SumOver(ChipsOf, Seats) + PotInFlight = SumOver(start_chips, Seats)

\* a pot that holds the chips of a seat that folded has been split between
\* two seats at a showdown
C1_Witness ==
    /\ pc = "done"
    /\ Cardinality({i \in Seats : awarded[i] > 0}) >= 2
    /\ pot > small_blind_amount + big_blind_amount
    /\ \E i \in Seats : players[i].has_folded /\ Contribution(i) > 0

\* C2: at a showdown of two or more non-folded seats, a seat that put L
\* chips into the hand is awarded at most the sum over all seats of
\* min(L, that seat's contribution).
C2_SidePotCap ==
    (pc = "done" /\ Cardinality(NonFolded) >= 2) =>
        \A s \in NonFolded :
            awarded[s] <= SumOver([i \in Seats |->
                                      Min(Contribution(s), Contribution(i))], Seats)

\* C3: on a street without a raise, the betting round closes (unless folds
\* leave one seat) only once every non-folded, non-all-in seat has had its
\* turn on that street.
C3_EveryoneGetsATurn ==
    (pc = "closed" /\ last_raiser_index = -1 /\ Cardinality(NonFolded) >= 2) =>
        CanAct \subseteq acted

\* C4: after a raise, the betting round closes (unless folds leave one seat)
\* only once every other non-folded, non-all-in seat has acted again after
\* that raise.
C4_RaiseReopens ==
    (pc = "closed" /\ last_raiser_index # -1 /\ Cardinality(NonFolded) >= 2) =>
        (CanAct \ {last_raiser_index}) \subseteq acted

\* a round with a raise has closed with two seats still able to act, one of
\* them not the raiser
C4_Witness ==
    /\ pc = "closed"
    /\ last_raiser_index # -1
    /\ Cardinality(CanAct) >= 2
    /\ (CanAct \ {last_raiser_index}) # {}
    /\ acted \ {last_raiser_index} # {}

\* C5: with no all-in seat, once every other non-folded seat has answered
\* the last raise and every non-folded seat has matched the current bet, the
\* round is closed: no seat is asked to act again.
C5_ClosedOnceAllCalled ==
    ~ /\ pc = "ask"
      /\ last_raiser_index # -1
      /\ Cardinality(NonFolded) >= 2
      /\ \A i \in Seats : ~players[i].is_all_in
      /\ \A i \in NonFolded : players[i].current_bet = current_bet
      /\ (NonFolded \ {last_raiser_index}) \subseteq acted

\* C6: when a non-folded seat is all-in for less than the current bet, the
\* round closes as soon as every non-folded seat that is not all-in has
\* matched the current bet and has acted since the last raise.
C6_AllInNeedNotMatch ==
    ~ /\ pc \in {"ask", "spin"}
      /\ \E i \in NonFolded :
            players[i].is_all_in /\ players[i].current_bet < current_bet
      /\ \A i \in CanAct : players[i].current_bet = current_bet
      /\ CanAct \subseteq acted

\* C7: no seat is asked for an action while fewer than two non-folded seats
\* are able to act.
C7_DegenerateClosure ==
    pc = "ask" => Cardinality(CanAct) >= 2

\* C8: with two or more non-folded seats of which at most one is not
\* all-in, no betting round runs forever.
C8_ShortCircuitEnds ==
    (Cardinality(NonFolded) >= 2 /\ Cardinality(CanAct) <= 1) => pc # "spin"

\* C9: when the betting round of the flop, the turn or the river begins,
\* every seat's bet in the street is 0.
C9_StreetBetsReset ==
    (pc = "street" /\ current_betting_round >= 1) =>
        \A i \in Seats : players[i].current_bet = 0

\* C10: the legal set offered always holds fold, holds check exactly when
\* to_call = 0, and holds call exactly when to_call > 0 and the seat has
\* chips.
C10_LegalFoldCheckCall ==
    pc = "ask" =>
        LET to_call == current_bet - Prompted.current_bet IN
        /\ "fold" \in Offered
        /\ ("check" \in Offered) <=> (to_call = 0)
        /\ ("call" \in Offered) <=> (to_call > 0 /\ Prompted.chips > 0)

\* C11: whenever a seat is asked for an action, raise is offered exactly when
\* the seat's chips exceed to_call, whatever the size of the previous raise
\* (min_raise).
C11_LegalRaise ==
    pc = "ask" =>
        LET to_call == current_bet - Prompted.current_bet IN
        ("raise" \in Offered) <=> (Prompted.chips > to_call)

\* C12: every accepted raise leaves current_bet at the raise-to amount the
\* seat gave and min_raise at the new current_bet minus the current_bet
\* before the raise.
C12_MinRaiseBookkeeping ==
    [][\A raise_amount \in
            RaiseChoices(min_raise_amount(Prompted, current_bet, min_raise),
                         max_raise_amount(Prompted)) :
          (pc = "ask" /\ "raise" \in Offered /\ ApplyRaise(raise_amount)) =>
              /\ current_bet' = raise_amount
              /\ min_raise' = current_bet' - current_bet]_vars

\* C13: whatever is typed at a prompt, the game state changes only as the
\* application of an offered action, a raise with an amount of the range
\* asked for; anything else typed leaves the game state as it is and the
\* same seat at the prompt.
C13_OnlyLegalApplied ==
    [][pc = "ask" =>
          \/ "fold" \in Offered /\ Fold
          \/ "check" \in Offered /\ Check
          \/ "call" \in Offered /\ Call
          \/ /\ "raise" \in Offered
             /\ \E raise_amount \in
                     min_raise_amount(Prompted, current_bet, min_raise) ..
                         max_raise_amount(Prompted) :
                   ApplyRaise(raise_amount)]_vars

\* C14: with exactly two seats, the dealer posts the small blind, the other
\* seat posts the big blind, and the dealer is the first seat asked pre-flop.
C14_HeadsUp ==
    (NumSeats = 2 /\ current_betting_round = 0) =>
        LET other == (dealer_index + 1) % 2 IN
        /\ pc = "street" =>
              /\ players[dealer_index].current_bet =
                    Min(small_blind_amount, start_chips[dealer_index])
              /\ players[other].current_bet =
                    Min(big_blind_amount, start_chips[other])
        /\ (pc = "ask" /\ acted = {} /\ dealer_index \in CanAct) =>
              current_player_index = dealer_index

\* the number of places seat s is clockwise of seat from
Clockwise(from, s) == (s - from + NumSeats) % NumSeats

\* the seat of S nearest clockwise of seat from, from itself included; -1
\* when S is empty
NearestClockwise(from, S) ==
    IF S = {} THEN -1
    ELSE CHOOSE s \in S : \A t \in S : Clockwise(from, s) <= Clockwise(from, t)

\* the first prompt of a street goes to the seat the order of play names
FirstAskedInOrder ==
    (pc = "ask" /\ acted = {}) =>
        current_player_index =
            IF current_betting_round = 0
            THEN (dealer_index + 3) % NumSeats
            ELSE NearestClockwise((dealer_index + 1) % NumSeats, CanAct)

\* C15: with three or more seats, the first seat asked pre-flop is the seat
\* three places after the dealer, the first seat asked on a later street is
\* the first seat clockwise from dealer + 1 that is neither folded nor
\* all-in, and after each accepted action the next seat asked is the next
\* seat clockwise that is neither folded nor all-in.
C15_ActionOrder ==
    [][NumSeats >= 3 =>
          /\ FirstAskedInOrder'
          /\ (pc = "ask" /\ pc' = "ask") =>
                current_player_index' =
                    NearestClockwise((current_player_index + 1) % NumSeats,
                                     CanActIn(players'))]_vars

\* on a later street of a three-seat hand, a seat is asked after the seat two
\* places before it has acted and the seat between them, folded or all-in,
\* was passed over
C15_Witness ==
    /\ NumSeats = 3
    /\ pc = "ask"
    /\ current_betting_round >= 1
    /\ (current_player_index + 1) % 3 \in acted
    /\ (current_player_index + 2) % 3 \notin CanAct

\* C16: when a pot is split between n >= 2 tied winners, each gets pot \div n
\* and the pot % n chips left over go one each to the winners first in
\* seating order from the seat left of the dealer.
C16_RemainderLeftOfDealer ==
    (pc = "done" /\ Cardinality(NonFolded) >= 2) =>
        LET W == {i \in Seats : awarded[i] > 0}
            n == Cardinality(W)
            left == (dealer_index + 1) % NumSeats
            before(i) == {j \in W : Clockwise(left, j) < Clockwise(left, i)}
        IN n >= 2 =>
              \A i \in W :
                  awarded[i] = (pot \div n)
                      + (IF Cardinality(before(i)) < pot % n THEN 1 ELSE 0)

\* C17: when a hand is settled, no folded seat is awarded chips, and the
\* chips awarded to the non-folded seats are the chips all seats put into
\* the hand, those of the folded seats included.
C17_FoldedStaysInPot ==
    pc = "done" =>
        /\ \A i \in Seats : players[i].has_folded => awarded[i] = 0
        /\ SumOver(awarded, NonFolded)
              = SumOver([i \in Seats |-> Contribution(i)], Seats)

\* a hand has been settled at a showdown after a seat that had put more than
\* the big blind into the pot folded
C17_Witness ==
    /\ pc = "done"
    /\ Cardinality(NonFolded) >= 2
    /\ \E i \in Seats :
          players[i].has_folded /\ Contribution(i) > big_blind_amount

\* C18: once folds have left exactly one non-folded seat, on any street, no
\* seat is asked and no betting round is begun, and the next thing that
\* happens is the award: no community card is dealt and the chips of that
\* seat go up by the whole pot.
C18_LastSeatStanding ==
    [][/\ (Cardinality(NonFolded) = 1 => pc \in {"closed", "done", "over"})'
       /\ (Cardinality(NonFolded) = 1 /\ pc = "closed") =>
             LET w == CHOOSE i \in NonFolded : TRUE IN
             /\ pc' = "done"
             /\ community_cards' = community_cards
             /\ players'[w].chips = players[w].chips + pot
             /\ \A i \in Seats \ {w} : players'[i].chips = players[i].chips]_vars

\* a hand has ended on the flop or later because every seat but one folded,
\* and that seat has been given a pot that holds more than the blinds
C18_Witness ==
    /\ pc = "done"
    /\ Cardinality(NonFolded) = 1
    /\ community_cards >= 3
    /\ pot > small_blind_amount + big_blind_amount
    /\ \A i \in NonFolded : awarded[i] = pot

\* C19: from the blinds of a hand to its award, a seat whose is_all_in is
\* set has no chips, and a seat that began the hand with chips and has none
\* left has is_all_in set.
C19_AllInFlag ==
    pc \in {"street", "ask", "spin", "closed"} =>
        \A i \in Seats :
            /\ players[i].is_all_in => players[i].chips = 0
            /\ (start_chips[i] > 0 /\ players[i].chips = 0) => players[i].is_all_in

\* a seat is asked while another seat, which had more than the big blind at
\* the start of the hand, is all-in
C19_Witness ==
    /\ pc = "ask"
    /\ \E i \in Seats \ {current_player_index} :
          /\ players[i].is_all_in
          /\ start_chips[i] > big_blind_amount
          /\ Contribution(i) = start_chips[i]

\* C20: a hand is played only between seats that had chips when it began:
\* two or more seats had, a seat that had none is never asked for an action
\* and is awarded nothing.
C20_Elimination ==
    /\ pc \in {"street", "ask", "spin", "closed"} =>
          /\ Cardinality({i \in Seats : start_chips[i] > 0}) >= 2
          /\ pc = "ask" => start_chips[current_player_index] > 0
    /\ pc = "done" => \A i \in Seats : start_chips[i] = 0 => awarded[i] = 0

\* ------------------------------------------------------ five-card ranking
\* The category and the key of a hand of exactly five cards by the rules of
\* the game, and the best of them over the five-card subsets of a set.
FiveCardHands(cards) == {H \in SUBSET cards : Cardinality(H) = 5}

SameSuit(H) == \A c, d \in H : c[2] = d[2]

IsWheel(H) == RanksOf(H) = {14, 5, 4, 3, 2}

MinOver(S) == CHOOSE m \in S : \A x \in S : m <= x

IsRun(H) ==
    /\ Cardinality(RanksOf(H)) = 5
    /\ \/ MaxOver(RanksOf(H)) - MinOver(RanksOf(H)) = 4
       \/ IsWheel(H)

RunHigh(H) == IF IsWheel(H) THEN 5 ELSE MaxOver(RanksOf(H))

\* the numbers of cards of each rank, e.g. {3, 2} for a full house
RanksWith(H, n) == {r \in RanksOf(H) : Cardinality({c \in H : c[1] = r}) = n}

Category5(H) ==
    IF IsRun(H) /\ SameSuit(H)
    THEN (IF RunHigh(H) = 14 THEN ROYAL_FLUSH ELSE STRAIGHT_FLUSH)
    ELSE IF RanksWith(H, 4) # {} THEN FOUR_OF_A_KIND
    ELSE IF RanksWith(H, 3) # {} /\ RanksWith(H, 2) # {} THEN FULL_HOUSE
    ELSE IF SameSuit(H) THEN FLUSH
    ELSE IF IsRun(H) THEN STRAIGHT
    ELSE IF RanksWith(H, 3) # {} THEN THREE_OF_A_KIND
    ELSE IF Cardinality(RanksWith(H, 2)) = 2 THEN TWO_PAIR
    ELSE IF RanksWith(H, 2) # {} THEN PAIR
    ELSE HIGH_CARD

\* the high card of a run; otherwise the ranks of the hand, those held more
\* often first and the higher first among those held equally often
Key5(H) ==
    IF IsRun(H) THEN <<RunHigh(H)>>
    ELSE Descending(RanksWith(H, 4)) \o Descending(RanksWith(H, 3))
            \o Descending(RanksWith(H, 2)) \o Descending(RanksWith(H, 1))

BestCategory(cards) == MaxOver({Category5(H) : H \in FiveCardHands(cards)})

\* the greatest key among the five-card subsets of the category cat; <<>>
\* when no subset is of that category
BestKey(cards, cat) ==
    LET keys == {Key5(H) : H \in {G \in FiveCardHands(cards) : Category5(G) = cat}}
    IN IF keys = {} THEN <<>>
       ELSE CHOOSE k \in keys : \A j \in keys : j = k \/ ListLess(j, k)

\* C21: for every set of 5 to 7 cards, the category evaluate_hand returns is
\* the highest category of any five-card subset of the set.
C21_BestCategory ==
    evaluation # NoEvaluation => evaluation.rank = BestCategory(all_cards)

\* C22: for every set of 5 to 7 cards, the key evaluate_hand returns is the
\* greatest key of the five-card subsets of the category it returns.
C22_BestKey ==
    evaluation # NoEvaluation =>
        evaluation.key = BestKey(all_cards, evaluation.rank)

\* hand a = <<category, key>> outranks hand b: by category, and by key, the
\* first differing element deciding, only when the categories are the same
Outranks(a, b) ==
    \/ a[1] > b[1]
    \/ /\ a[1] = b[1]
       /\ \E i \in 1..Min(Len(a[2]), Len(b[2])) :
             /\ a[2][i] > b[2][i]
             /\ \A j \in 1..(i - 1) : a[2][j] = b[2][j]

\* C23: at a showdown of two or more non-folded seats, whatever the
\* evaluator returned for each of them, the winners are exactly the seats
\* whose (category, key) no other seat's outranks, and there is a winner.
C23_WinnerSet ==
    (pc = "closed" /\ Cardinality(get_active_players) > 1
        /\ current_betting_round = 3) =>
        \A hands \in [get_active_players -> HandChoices] :
            LET winners == determine_winner(players, hands)
                W == {winners[k] : k \in 1..Len(winners)}
            IN /\ W # {}
               /\ W = {i \in get_active_players :
                          \A j \in get_active_players :
                              ~Outranks(hands[j], hands[i])}

\* a showdown of three seats has been settled with two winners: two seats
\* tied and outranked the third
C23_Witness ==
    /\ pc = "done"
    /\ Cardinality(NonFolded) = 3
    /\ Cardinality({i \in Seats : awarded[i] > 0}) = 2

\* C24: an accepted action never lowers the street's current_bet or the pot,
\* never gives a seat chips, and never lowers a seat's bet while the street
\* goes on; an accepted raise, its amount typed or taken as the minimum,
\* leaves current_bet greater than it was.
C24_BetsOnlyGoUp ==
    [][pc = "ask" =>
          /\ current_bet' >= current_bet
          /\ pot' >= pot
          /\ \A i \in Seats : players'[i].chips <= players[i].chips
          /\ pc' # "closed" =>
                \A i \in Seats : players'[i].current_bet >= players[i].current_bet
          /\ (Raise \/ RaiseMalformed) => current_bet' > current_bet]_vars

\* C25: whenever raise is offered to the seat asked, the minimum raise-to
\* amount computed for it is no greater than the maximum, its chips plus its
\* bet in the street.
C25_RaiseRangeNotEmpty ==
    (pc = "ask" /\ "raise" \in Offered) =>
        min_raise_amount(Prompted, current_bet, min_raise)
            <= max_raise_amount(Prompted)

====
